---- MODULE Spec2Model ----
(***************************************************************************)
(* A model of vsketch_cli/utils.py: the scoped working directory, the      *)
(* sketch discoverer (load_sketch_class), the deterministic executor       *)
(* (execute_sketch) and find_unique_path.                                  *)
(*                                                                         *)
(* Optional values (Python's None) are sequences of length 0 or 1.         *)
(* Lengths of the document are counted in half units (U), so that the      *)
(* division by 2.0 of the centering formula stays exact on integers.       *)
(***************************************************************************)
EXTENDS Integers, Sequences, FiniteSets, TLC

VARIABLES
    cwd,        \* the process working directory: an absolute directory
    scopes,     \* prev_cwd of every working_directory scope that is open
    entered,    \* history: the working directory right before each open scope was entered
    raising,    \* <<>> or <<e>>: the exception that is propagating
    lastExit,   \* history: <<>> or <<[expected, actual]>> of the last scope exit
    wdTarget,   \* history: <<>> or <<[before, after]>> of the last failed scope entry
    lpc,        \* load_sketch_class: where the call is
    lpath,      \* load_sketch_class: its argument
    lcwdPath,   \* load_sketch_class: its local cwd_path
    ns,         \* load_sketch_class: <<>> or <<sketch_scripts>>, what run_path returned
    lresult,    \* load_sketch_class: how the call ended
    attached,   \* the __vsketch_cwd__ attribute of every class: <<>> or <<path>>
    diag,       \* the diagnostics printed to the error channel
    lcall,      \* history: the working directory when load_sketch_class was called
    failure,    \* history: <<>> or <<e>>, what was raised while the script was loaded
    beh,        \* the sketch class's own code: what its constructor, draw and finalize do
    pyRandom,   \* the state of the process-wide random module
    npRandom,   \* the state of the process-wide numpy.random
    epc,        \* execute_sketch: where the call is
    eargs,      \* execute_sketch: its arguments sketch_class, seed, finalize
    vsk,        \* execute_sketch: <<>> or <<the instance>>
    eresult,    \* execute_sketch: how the call ended
    log,        \* history: the steps of the call, each with the working directory it ran in
    ehist,      \* history: of the call (the directory at the call, what draw left, ...)
    prev,       \* history: <<>> or <<the arguments and the document of the call before>>
    calls,      \* the calls of execute_sketch so far
    existing,   \* the names that exist in the directory find_unique_path looks in
    fpc,        \* find_unique_path: where the call is
    fargs,      \* find_unique_path: its arguments filename, always_number
    flocals,    \* find_unique_path: its locals base_name, ext, name, index, path
    fresult     \* find_unique_path: <<>> or <<the name returned>>

wdVars == <<cwd, scopes, entered, raising, lastExit, wdTarget>>
loadVars == <<lpc, lpath, lcwdPath, ns, lresult, attached, diag, lcall, failure>>
execVars == <<beh, pyRandom, npRandom, epc, eargs, vsk, eresult, log, ehist, prev, calls>>
fupVars == <<existing, fpc, fargs, flocals, fresult>>
vars == <<wdVars, loadVars, execVars, fupVars>>

None == <<>>
Some(v) == <<v>>

-----------------------------------------------------------------------------
(* Bounds *)

MaxPathLen == 2     \* components of a path handed to the program
MaxDepth == 2       \* nested working_directory scopes
MaxStmts == 3       \* top-level statements of a script
RngStates == 2      \* states of a randomness source
MaxSeed == 1        \* the largest seed
MaxCalls == 2       \* calls of execute_sketch in a run of the process
MaxNameLen == 3     \* characters of a filename handed to find_unique_path
MaxFiles == 3       \* the largest number on a file of the directory

-----------------------------------------------------------------------------
(* The file system and pathlib *)

Names == {"a", "s"}

\* the directories that exist: /, /a, /a/a
Dirs == {<<>>, <<"a">>, <<"a", "a">>}

\* the script files that exist: /a/s, and /a/__main__ (what run_path runs for /a)
Files == {<<"a", "s">>, <<"a", "__main__">>}

SeqsUpTo(S, n) == UNION {[1..k -> S] : k \in 0..n}

\* pathlib.Path values: absolute (/a/s) or relative (a/s); Path(".") has no parts
Paths == {[abs |-> b, parts |-> s] : b \in BOOLEAN, s \in SeqsUpTo(Names, MaxPathLen)}

AbsPath(d) == [abs |-> TRUE, parts |-> d]

Front(s) == SubSeq(s, 1, Len(s) - 1)

\* path.parent
Parent(p) == [p EXCEPT !.parts = IF p.parts = <<>> THEN <<>> ELSE Front(p.parts)]

\* the absolute location a path names when the working directory is c
Resolve(c, p) == IF p.abs THEN p.parts ELSE c \o p.parts

\* path.is_dir()
IsDir(c, p) == Resolve(c, p) \in Dirs

\* path.exists()
Exists(c, p) == Resolve(c, p) \in Dirs \cup Files

-----------------------------------------------------------------------------
(* working_directory *)

Exceptions == {"Exception", "SyntaxError", "FileNotFoundError"}
BaseExceptions == Exceptions \cup {"SystemExit", "KeyboardInterrupt"}

\* os.chdir(str(path)): the new working directory, or the error raised
Chdir(c, p) ==
    IF IsDir(c, p) THEN [ok |-> TRUE, cwd |-> Resolve(c, p)]
    ELSE [ok |-> FALSE, cwd |-> c]

\* prev_cwd = os.getcwd(); os.chdir(str(path)); then the body runs
WorkingDirectoryEnter(c, p) ==
    LET r == Chdir(c, p) IN [ok |-> r.ok, prev_cwd |-> c, cwd |-> r.cwd]

\* a variant without try/finally: the directory is restored on normal exit only
WorkingDirectoryExitNoFinally(prev_cwd, cur, exc) ==
    IF exc = None THEN prev_cwd ELSE cur

\* finally: os.chdir(prev_cwd), on every exit path
WorkingDirectoryExit(prev_cwd, cur, exc) == prev_cwd

\* entering a scope: pushes its frame, or raises out of os.chdir before the body
EnterScope(p) ==
    LET r == WorkingDirectoryEnter(cwd, p) IN
    IF r.ok
    THEN /\ cwd' = r.cwd
         /\ scopes' = Append(scopes, r.prev_cwd)
         /\ entered' = Append(entered, cwd)
         /\ raising' = raising
         /\ wdTarget' = wdTarget
    ELSE /\ cwd' = r.cwd
         /\ raising' = Some("FileNotFoundError")
         /\ wdTarget' = Some([before |-> cwd, after |-> r.cwd])
         /\ UNCHANGED <<scopes, entered>>

\* leaving the innermost scope, normally or with raising propagating
ExitScope ==
    LET n == Len(scopes) IN
    /\ cwd' = WorkingDirectoryExit(scopes[n], cwd, raising)
    /\ scopes' = Front(scopes)
    /\ entered' = Front(entered)
    /\ lastExit' = Some([expected |-> entered[n], actual |-> cwd', exc |-> raising,
                         depth |-> n, inner |-> cwd])

-----------------------------------------------------------------------------
(* Scripts and run_path *)

VarNames == {"x", "y", "z"}
ValueKinds == {"int", "class", "sketch"}     \* not a class; a class; a subclass of vsketch.Vsketch
ClassIds == 1..MaxStmts                      \* a value is named by the statement that made it

\* a top-level statement: a binding (x = ..., class x: ...), a raise, or text that
\* does not compile
Stmts ==
    {[op |-> "bind", name |-> n, kind |-> k] : n \in VarNames, k \in ValueKinds}
    \cup {[op |-> "raise", name |-> e, kind |-> "int"] : e \in {"Exception", "SystemExit"}}
    \cup {[op |-> "syntax", name |-> "SyntaxError", kind |-> "int"]}

Scripts == SeqsUpTo(Stmts, MaxStmts)

IndexOfName(g, n) ==
    IF \E k \in 1..Len(g) : g[k].name = n
    THEN CHOOSE k \in 1..Len(g) : g[k].name = n
    ELSE 0

\* one statement on the module's globals: a dict keeps a name at the place of its
\* first binding and a rebinding replaces the value there
ExecStmt(st, stmt, i) ==
    IF st.exc # None THEN st
    ELSE IF stmt.op = "raise" THEN [st EXCEPT !.exc = Some(stmt.name)]
    ELSE LET v == [name |-> stmt.name, kind |-> stmt.kind, id |-> i]
             k == IndexOfName(st.globals, stmt.name)
         IN  IF k = 0 THEN [st EXCEPT !.globals = Append(@, v)]
             ELSE [st EXCEPT !.globals[k] = v]

RECURSIVE ExecFrom(_, _, _)
ExecFrom(st, script, i) ==
    IF i > Len(script) THEN st
    ELSE ExecFrom(ExecStmt(st, script[i], i), script, i + 1)

\* the script as a top-level program in a fresh namespace
ExecScript(script) ==
    IF \E i \in 1..Len(script) : script[i].op = "syntax"
    THEN [globals |-> <<>>, exc |-> Some("SyntaxError")]
    ELSE ExecFrom([globals |-> <<>>, exc |-> None], script, 1)

\* what the scripts of a set leave behind when run
Outcomes(scripts) == {ExecScript(script) : script \in scripts}

ScriptOutcomes == Outcomes(Scripts)

\* run_path(str(path)) in working directory c: a file is run, a directory's
\* __main__ is run, anything else is not found; ran is what the script found there
\* leaves behind
RunPath(c, p, ran) ==
    LET target == Resolve(c, p) IN
    IF target \in Files \/ (target \in Dirs /\ Append(target, "__main__") \in Files)
    THEN ran
    ELSE [globals |-> <<>>, exc |-> Some("FileNotFoundError")]

-----------------------------------------------------------------------------
(* load_sketch_class *)

NoPath == [abs |-> FALSE, parts |-> <<>>]
NoResult == [kind |-> "pending", cls |-> 0]

\* cwd_path = path; if not cwd_path.is_dir(): cwd_path = cwd_path.parent
CwdPath(c, p) == IF ~IsDir(c, p) THEN Parent(p) ELSE p

\* a handler that catches syntax errors only
ExceptSyntaxErrorOnly(e) == e = "SyntaxError"

\* except Exception
ExceptException(e) == e \in Exceptions

\* inspect.isclass(cls) and issubclass(cls, vsketch.Vsketch)
IsSketchClass(v) == v.kind \in {"class", "sketch"} /\ v.kind = "sketch"

\* a scan that keeps the last match
RECURSIVE LastSketchFrom(_, _)
LastSketchFrom(values, i) ==
    IF i > Len(values) THEN 0
    ELSE LET later == LastSketchFrom(values, i + 1) IN
         IF later # 0 THEN later
         ELSE IF IsSketchClass(values[i]) THEN i ELSE 0

\* for cls in sketch_scripts.values(): the place of the value returned, 0 for none
RECURSIVE FirstSketchFrom(_, _)
FirstSketchFrom(values, i) ==
    IF i > Len(values) THEN 0
    ELSE IF IsSketchClass(values[i]) THEN i
    ELSE FirstSketchFrom(values, i + 1)

NothingAttached == [c \in ClassIds |-> None]

LoadIdle ==
    /\ lpc = "idle"
    /\ lpath = NoPath
    /\ lcwdPath = NoPath
    /\ ns = None
    /\ lresult = NoResult
    /\ diag = 0
    /\ lcall = <<>>
    /\ failure = None

LoadCall(p) ==
    /\ lpc = "idle"
    /\ lpath' = p
    /\ lcwdPath' = CwdPath(cwd, p)
    /\ lcall' = cwd
    /\ lpc' = "enter"
    /\ UNCHANGED <<ns, lresult, attached, diag, failure, wdVars>>
    /\ UNCHANGED <<execVars, fupVars>>

\* with working_directory(cwd_path): inside the try
LoadEnter ==
    /\ lpc = "enter"
    /\ EnterScope(lcwdPath)
    /\ lpc' = IF raising' = None THEN "run" ELSE "handler"
    /\ failure' = raising'
    /\ UNCHANGED <<lpath, lcwdPath, ns, lresult, attached, diag, lcall, lastExit>>
    /\ UNCHANGED <<execVars, fupVars>>

\* sketch_scripts = run_path(str(path))
LoadRun(ran) ==
    /\ lpc = "run"
    /\ LET r == RunPath(cwd, lpath, ran) IN
        /\ raising' = r.exc
        /\ ns' = IF r.exc = None THEN Some(r.globals) ELSE None
        /\ failure' = r.exc
    /\ lpc' = "leave"
    /\ UNCHANGED <<lpath, lcwdPath, lresult, attached, diag, lcall,
                   cwd, scopes, entered, lastExit, wdTarget>>
    /\ UNCHANGED <<execVars, fupVars>>

LoadLeave ==
    /\ lpc = "leave"
    /\ ExitScope
    /\ lpc' = IF raising = None THEN "scan" ELSE "handler"
    /\ UNCHANGED <<lpath, lcwdPath, ns, lresult, attached, diag, lcall, failure,
                   raising, wdTarget>>
    /\ UNCHANGED <<execVars, fupVars>>

\* except Exception: print the traceback and the error, return None; anything
\* else leaves load_sketch_class
LoadHandler ==
    /\ lpc = "handler"
    /\ IF ExceptException(raising[1])
       THEN /\ diag' = diag + 1
            /\ raising' = None
            /\ lresult' = [kind |-> "none", cls |-> 0]
       ELSE /\ lresult' = [kind |-> "raised", cls |-> 0]
            /\ UNCHANGED <<diag, raising>>
    /\ lpc' = "done"
    /\ UNCHANGED <<lpath, lcwdPath, ns, attached, lcall, failure,
                   cwd, scopes, entered, lastExit, wdTarget>>
    /\ UNCHANGED <<execVars, fupVars>>

\* the loop over sketch_scripts.values()
LoadScan ==
    /\ lpc = "scan"
    /\ LET i == FirstSketchFrom(ns[1], 1) IN
       IF i # 0
       THEN /\ attached' = [attached EXCEPT ![ns[1][i].id] = Some(lcwdPath)]
            /\ lresult' = [kind |-> "class", cls |-> ns[1][i].id]
       ELSE /\ lresult' = [kind |-> "none", cls |-> 0]
            /\ UNCHANGED attached
    /\ lpc' = "done"
    /\ UNCHANGED <<lpath, lcwdPath, ns, diag, lcall, failure, wdVars>>
    /\ UNCHANGED <<execVars, fupVars>>

-----------------------------------------------------------------------------
(* The sketch instance and its document *)

U(x) == 2 * x

Rng == 0..(RngStates - 1)

Seeds == {None} \cup {Some(k) : k \in 0..MaxSeed}

\* seeding a source puts it in the state the seed names, whatever it was
SeedState(s) == s % RngStates

\* a source hands out its state and moves on
RngValue(state) == state
RngAdvance(state) == (state + 1) % RngStates

\* lines of a document, each by its own extent <<min-x, min-y, max-x, max-y>>
ExampleShape == <<U(10), U(10), U(30), U(50)>>
WideShape == <<U(0 - 4), U(0 - 2), U(7), U(9)>>
DotShape == <<U(0), U(0), U(1), U(1)>>
FinalShape == <<U(2), U(2), U(3), U(3)>>

ShapeSets == {<<>>, <<ExampleShape>>, <<WideShape, DotShape>>}

Pages == {None, Some(<<U(100), U(100)>>), Some(<<U(3), U(5)>>)}

Min(S) == CHOOSE m \in S : \A n \in S : m <= n
Max(S) == CHOOSE m \in S : \A n \in S : m >= n

\* document.bounds(): None for an empty document
Bounds(shapes) ==
    IF shapes = <<>> THEN None
    ELSE LET I == 1..Len(shapes) IN
         Some(<<Min({shapes[i][1] : i \in I}), Min({shapes[i][2] : i \in I}),
                Max({shapes[i][3] : i \in I}), Max({shapes[i][4] : i \in I})>>)

\* document.translate(dx, dy)
Translate(shapes, dx, dy) ==
    [i \in 1..Len(shapes) |->
        <<shapes[i][1] + dx, shapes[i][2] + dy, shapes[i][3] + dx, shapes[i][4] + dy>>]

\* what a sketch class's own code does
Behaviours ==
    {b \in [ctor : {"ok", "none"}, raisesAt : {"never", "init", "draw", "finalize"},
            centered : BOOLEAN, page : Pages, shapes : ShapeSets, random : BOOLEAN] :
        (b.ctor = "none" \/ b.raisesAt # "never") =>
            /\ b.centered
            /\ b.page = Some(<<U(100), U(100)>>)
            /\ b.shapes = <<ExampleShape>>
            /\ ~b.random
            /\ (b.ctor = "none" => b.raisesAt = "never")}

NoBehaviour ==
    [ctor |-> "ok", raisesAt |-> "never", centered |-> FALSE, page |-> None,
     shapes |-> <<>>, random |-> FALSE]

\* draw(): the class's shapes, moved by what it takes from the four sources
DrawnShapes(b, inst, py, np) ==
    IF b.random
    THEN Translate(b.shapes, U(RngValue(inst.random) + RngStates * RngValue(inst.noise)),
                             U(RngValue(py) + RngStates * RngValue(np)))
    ELSE b.shapes

-----------------------------------------------------------------------------
(* execute_sketch *)

NoArgs == [cls |-> None, seed |-> None, finalize |-> FALSE]
NoHist == [call |-> <<>>, drawn |-> <<>>, raisedAt |-> "never", prior |-> <<>>, translated |-> 0]

\* if seed: a seed of 0 counts as no seed
SeedIsTruthy(seed) == seed # None /\ seed[1] # 0

\* if seed is not None
SeedSupplied(seed) == seed # None

\* a body that draws right after instantiating and seeds afterwards
AfterStepDrawFirst(step, seed, finalize) ==
    CASE step = "init" -> "draw"
      [] step = "draw" -> IF SeedSupplied(seed) THEN "randomSeed"
                          ELSE IF finalize THEN "finalize" ELSE "leave"
      [] step = "randomSeed" -> "noiseSeed"
      [] step = "noiseSeed" -> "random.seed"
      [] step = "random.seed" -> "np.random.seed"
      [] step = "np.random.seed" -> IF finalize THEN "finalize" ELSE "leave"
      [] step = "finalize" -> "leave"

\* the statement that follows a step of the with body that completed
AfterStep(step, seed, finalize) ==
    CASE step = "init" -> IF SeedSupplied(seed) THEN "randomSeed" ELSE "draw"
      [] step = "randomSeed" -> "noiseSeed"
      [] step = "noiseSeed" -> "random.seed"
      [] step = "random.seed" -> "np.random.seed"
      [] step = "np.random.seed" -> "draw"
      [] step = "draw" -> IF finalize THEN "finalize" ELSE "leave"
      [] step = "finalize" -> "leave"

\* cwd = getattr(sketch_class, "__vsketch_cwd__", pathlib.Path(os.getcwd()))
HomeOf(c, cls) == IF attached[cls] # None THEN attached[cls][1] ELSE AbsPath(c)

\* a centering that halves the start of the bounds along with the margin
CenterOffsetOriginHalved(page_size, bounds) ==
    <<(page_size[1] - (bounds[3] - bounds[1]) - bounds[1]) \div 2,
      (page_size[2] - (bounds[4] - bounds[2]) - bounds[2]) \div 2>>

\* a centering that forgets where the bounds start
CenterOffsetNoOrigin(page_size, bounds) ==
    <<(page_size[1] - (bounds[3] - bounds[1])) \div 2,
      (page_size[2] - (bounds[4] - bounds[2])) \div 2>>

\* ((width - (bounds[2] - bounds[0])) / 2.0 - bounds[0],
\*  (height - (bounds[3] - bounds[1])) / 2.0 - bounds[1])
CenterOffset(page_size, bounds) ==
    <<(page_size[1] - (bounds[3] - bounds[1])) \div 2 - bounds[1],
      (page_size[2] - (bounds[4] - bounds[2])) \div 2 - bounds[2]>>

\* if vsk.centered and vsk.document.page_size is not None: ... if bounds is not None
ShouldCenter(inst) ==
    inst.centered /\ inst.page_size # None /\ Bounds(inst.shapes) # None

Logged(ev) == Append(log, [ev |-> ev, cwd |-> cwd])

ExecIdle ==
    /\ epc = "idle"
    /\ eargs = NoArgs
    /\ vsk = None
    /\ eresult = NoResult
    /\ log = <<>>
    /\ ehist = NoHist
    /\ prev = None
    /\ calls = 0

\* if sketch_class is None: return None
ExecCall(c, seed, finalize) ==
    /\ epc = "idle"
    /\ lpc \in {"idle", "done"}
    /\ raising = None
    /\ calls < MaxCalls
    /\ calls' = calls + 1
    /\ eargs' = [cls |-> c, seed |-> seed, finalize |-> finalize]
    /\ ehist' = [NoHist EXCEPT !.call = cwd, !.prior = <<pyRandom, npRandom>>]
    /\ log' = <<>>
    /\ vsk' = None
    /\ IF c = None
       THEN epc' = "done" /\ eresult' = [kind |-> "none", cls |-> 0]
       ELSE epc' = "enter" /\ eresult' = NoResult
    /\ UNCHANGED <<beh, pyRandom, npRandom, prev, wdVars, loadVars>>
    /\ UNCHANGED fupVars

\* with working_directory(cwd): nothing catches what entering raises
ExecEnter ==
    /\ epc = "enter"
    /\ EnterScope(HomeOf(cwd, eargs.cls[1]))
    /\ IF raising' = None
       THEN epc' = "init" /\ eresult' = eresult
       ELSE epc' = "done" /\ eresult' = [kind |-> "raised", cls |-> 0]
    /\ UNCHANGED <<beh, pyRandom, npRandom, eargs, vsk, log, ehist, prev, calls,
                   lastExit, loadVars>>
    /\ UNCHANGED fupVars

\* vsk = sketch_class(); if vsk is None: return None
ExecInstantiate ==
    /\ epc = "init"
    /\ log' = Logged("init")
    /\ \/ /\ beh.raisesAt = "init"
          /\ raising' = Some("Exception")
          /\ epc' = "leave"
          /\ ehist' = [ehist EXCEPT !.raisedAt = "init"]
          /\ vsk' = None
       \/ /\ beh.raisesAt # "init"
          /\ beh.ctor = "none"
          /\ epc' = "leave"
          /\ UNCHANGED <<raising, vsk, ehist>>
       \/ /\ beh.raisesAt # "init"
          /\ beh.ctor = "ok"
          /\ \E r \in Rng, n \in Rng :
                /\ vsk' = Some([random |-> r, noise |-> n, centered |-> beh.centered,
                                page_size |-> None, shapes |-> <<>>])
                /\ ehist' = [ehist EXCEPT !.prior = <<r, n>> \o @]
          /\ epc' = AfterStep("init", eargs.seed, eargs.finalize)
          /\ UNCHANGED raising
    /\ UNCHANGED <<beh, pyRandom, npRandom, eargs, eresult, prev, calls,
                   cwd, scopes, entered, lastExit, wdTarget, loadVars>>
    /\ UNCHANGED fupVars

\* vsk.randomSeed(seed)
ExecRandomSeed ==
    /\ epc = "randomSeed"
    /\ log' = Logged("randomSeed")
    /\ vsk' = Some([vsk[1] EXCEPT !.random = SeedState(eargs.seed[1])])
    /\ epc' = AfterStep("randomSeed", eargs.seed, eargs.finalize)
    /\ UNCHANGED <<beh, pyRandom, npRandom, eargs, eresult, ehist, prev, calls,
                   wdVars, loadVars>>
    /\ UNCHANGED fupVars

\* vsk.noiseSeed(seed)
ExecNoiseSeed ==
    /\ epc = "noiseSeed"
    /\ log' = Logged("noiseSeed")
    /\ vsk' = Some([vsk[1] EXCEPT !.noise = SeedState(eargs.seed[1])])
    /\ epc' = AfterStep("noiseSeed", eargs.seed, eargs.finalize)
    /\ UNCHANGED <<beh, pyRandom, npRandom, eargs, eresult, ehist, prev, calls,
                   wdVars, loadVars>>
    /\ UNCHANGED fupVars

\* random.seed(seed)
ExecPySeed ==
    /\ epc = "random.seed"
    /\ log' = Logged("random.seed")
    /\ pyRandom' = SeedState(eargs.seed[1])
    /\ epc' = AfterStep("random.seed", eargs.seed, eargs.finalize)
    /\ UNCHANGED <<beh, npRandom, eargs, vsk, eresult, ehist, prev, calls,
                   wdVars, loadVars>>
    /\ UNCHANGED fupVars

\* np.random.seed(seed)
ExecNpSeed ==
    /\ epc = "np.random.seed"
    /\ log' = Logged("np.random.seed")
    /\ npRandom' = SeedState(eargs.seed[1])
    /\ epc' = AfterStep("np.random.seed", eargs.seed, eargs.finalize)
    /\ UNCHANGED <<beh, pyRandom, eargs, vsk, eresult, ehist, prev, calls,
                   wdVars, loadVars>>
    /\ UNCHANGED fupVars

\* vsk.draw()
ExecDraw ==
    /\ epc = "draw"
    /\ log' = Logged("draw")
    /\ IF beh.raisesAt = "draw"
       THEN /\ raising' = Some("Exception")
            /\ epc' = "leave"
            /\ ehist' = [ehist EXCEPT !.raisedAt = "draw"]
            /\ UNCHANGED <<vsk, pyRandom, npRandom>>
       ELSE /\ vsk' = Some([vsk[1] EXCEPT
                        !.shapes = @ \o DrawnShapes(beh, vsk[1], pyRandom, npRandom),
                        !.page_size = beh.page,
                        !.random = IF beh.random THEN RngAdvance(@) ELSE @,
                        !.noise = IF beh.random THEN RngAdvance(@) ELSE @])
            /\ pyRandom' = IF beh.random THEN RngAdvance(pyRandom) ELSE pyRandom
            /\ npRandom' = IF beh.random THEN RngAdvance(npRandom) ELSE npRandom
            /\ epc' = AfterStep("draw", eargs.seed, eargs.finalize)
            /\ UNCHANGED <<raising, ehist>>
    /\ UNCHANGED <<beh, eargs, eresult, prev, calls,
                   cwd, scopes, entered, lastExit, wdTarget, loadVars>>
    /\ UNCHANGED fupVars

\* vsk.finalize()
ExecFinalize ==
    /\ epc = "finalize"
    /\ log' = Logged("finalize")
    /\ IF beh.raisesAt = "finalize"
       THEN /\ raising' = Some("Exception")
            /\ ehist' = [ehist EXCEPT !.raisedAt = "finalize"]
            /\ UNCHANGED vsk
       ELSE /\ vsk' = Some([vsk[1] EXCEPT !.shapes = Append(@, FinalShape)])
            /\ UNCHANGED <<raising, ehist>>
    /\ epc' = AfterStep("finalize", eargs.seed, eargs.finalize)
    /\ UNCHANGED <<beh, pyRandom, npRandom, eargs, eresult, prev, calls,
                   cwd, scopes, entered, lastExit, wdTarget, loadVars>>
    /\ UNCHANGED fupVars

\* the with block is left: by an exception, by return None, or at its end
ExecLeave ==
    /\ epc = "leave"
    /\ ExitScope
    /\ log' = Logged("leave")
    /\ IF raising # None
       THEN epc' = "done" /\ eresult' = [kind |-> "raised", cls |-> 0]
       ELSE IF vsk = None
       THEN epc' = "done" /\ eresult' = [kind |-> "none", cls |-> 0]
       ELSE epc' = "center" /\ eresult' = eresult
    /\ ehist' = [ehist EXCEPT !.drawn = IF vsk = None THEN <<>> ELSE vsk[1].shapes]
    /\ UNCHANGED <<beh, pyRandom, npRandom, eargs, vsk, prev, calls,
                   raising, wdTarget, loadVars>>
    /\ UNCHANGED fupVars

\* the centering, and return vsk
ExecCenter ==
    /\ epc = "center"
    /\ IF ShouldCenter(vsk[1])
       THEN LET off == CenterOffset(vsk[1].page_size[1], Bounds(vsk[1].shapes)[1]) IN
            /\ vsk' = Some([vsk[1] EXCEPT !.shapes = Translate(@, off[1], off[2])])
            /\ log' = Logged("translate")
            /\ ehist' = [ehist EXCEPT !.translated = @ + 1]
       ELSE UNCHANGED <<vsk, log, ehist>>
    /\ epc' = "done"
    /\ eresult' = [kind |-> "vsk", cls |-> eargs.cls[1]]
    /\ UNCHANGED <<beh, pyRandom, npRandom, eargs, prev, calls, wdVars, loadVars>>
    /\ UNCHANGED fupVars

\* the caller keeps what a completed call produced and the process moves on: the
\* process-wide sources are left in any state
ExecAgain(py, np) ==
    /\ epc = "done"
    /\ eresult.kind = "vsk"
    /\ calls < MaxCalls
    /\ prev' = Some([seed |-> eargs.seed, finalize |-> eargs.finalize,
                     shapes |-> vsk[1].shapes, prior |-> ehist.prior])
    /\ pyRandom' = py
    /\ npRandom' = np
    /\ epc' = "idle"
    /\ UNCHANGED <<beh, eargs, vsk, eresult, log, ehist, calls, wdVars, loadVars>>
    /\ UNCHANGED fupVars

\* the caller changes the working directory between a load and an execution
CallerChdir(d) ==
    /\ lpc = "done"
    /\ epc = "idle"
    /\ raising = None
    /\ d # cwd
    /\ cwd' = d
    /\ UNCHANGED <<scopes, entered, raising, lastExit, wdTarget, loadVars, execVars>>
    /\ UNCHANGED fupVars

ExecSteps ==
    \/ ExecEnter
    \/ ExecInstantiate
    \/ ExecRandomSeed
    \/ ExecNoiseSeed
    \/ ExecPySeed
    \/ ExecNpSeed
    \/ ExecDraw
    \/ ExecFinalize
    \/ ExecLeave
    \/ ExecCenter

-----------------------------------------------------------------------------
(* The scope used on its own: the inner work may change the directory, open *)
(* nested scopes, raise, and catch what an inner scope raised.              *)

WDEnter(p) ==
    /\ raising = None
    /\ Len(scopes) < MaxDepth
    /\ EnterScope(p)
    /\ UNCHANGED lastExit
    /\ UNCHANGED <<loadVars, execVars, fupVars>>

WDInnerChdir(p) ==
    /\ raising = None
    /\ Len(scopes) > 0
    /\ Chdir(cwd, p).ok
    /\ cwd' = Chdir(cwd, p).cwd
    /\ UNCHANGED <<scopes, entered, raising, lastExit, wdTarget>>
    /\ UNCHANGED <<loadVars, execVars, fupVars>>

WDInnerRaise(e) ==
    /\ raising = None
    /\ Len(scopes) > 0
    /\ raising' = Some(e)
    /\ UNCHANGED <<cwd, scopes, entered, lastExit, wdTarget>>
    /\ UNCHANGED <<loadVars, execVars, fupVars>>

WDExit ==
    /\ Len(scopes) > 0
    /\ ExitScope
    /\ UNCHANGED <<raising, wdTarget>>
    /\ UNCHANGED <<loadVars, execVars, fupVars>>

WDCatch ==
    /\ raising # None
    /\ raising' = None
    /\ UNCHANGED <<cwd, scopes, entered, lastExit, wdTarget>>
    /\ UNCHANGED <<loadVars, execVars, fupVars>>

-----------------------------------------------------------------------------
(* find_unique_path *)

\* filenames are sequences of characters
Chars == {"s", "."}

SketchSvg == <<"s", "k", "e", "t", "c", "h", ".", "s", "v", "g">>

Filenames == SeqsUpTo(Chars, MaxNameLen) \cup {SketchSvg}

\* the place of the last "." of a name, 0 for none
LastDot(f) ==
    IF \E i \in 1..Len(f) : f[i] = "."
    THEN Max({i \in 1..Len(f) : f[i] = "."})
    ELSE 0

\* os.path.splitext(filename): the extension starts at the last dot, unless only
\* dots come before it
SplitExt(f) ==
    LET d == LastDot(f) IN
    IF d > 0 /\ \E i \in 1..(d - 1) : f[i] # "."
    THEN <<SubSeq(f, 1, d - 1), SubSeq(f, d, Len(f))>>
    ELSE <<f, <<>>>>

Digit(d) ==
    CASE d = 0 -> "0" [] d = 1 -> "1" [] d = 2 -> "2" [] d = 3 -> "3" [] d = 4 -> "4"
      [] d = 5 -> "5" [] d = 6 -> "6" [] d = 7 -> "7" [] d = 8 -> "8" [] d = 9 -> "9"

\* str(index)
RECURSIVE Str(_)
Str(n) == IF n < 10 THEN <<Digit(n)>> ELSE Str(n \div 10) \o <<Digit(n % 10)>>

\* base_name + "_" + str(index)
Numbered(base_name, index) == base_name \o <<"_">> \o Str(index)

\* the names the search may come to: the filename itself and its numbered ones
Candidates(f) ==
    {f} \cup {Numbered(SplitExt(f)[1], k) \o SplitExt(f)[2] : k \in 1..MaxFiles}

\* path.exists() of dir_path / name: dir_path itself and its parent always exist
PathExists(name, names) == name \in names \/ name \in {<<>>, <<".">>, <<".", ".">>}

\* a search that starts numbering at 1 in both modes
FirstIndexAlwaysOne(always_number) == 1

\* index = 1 if always_number else 2
FirstIndex(always_number) == IF always_number THEN 1 ELSE 2

NoFup == [base_name |-> <<>>, ext |-> <<>>, name |-> <<>>, index |-> 0, path |-> <<>>]

FupIdle ==
    /\ existing = {}
    /\ fpc = "idle"
    /\ fargs = [filename |-> <<>>, always_number |-> FALSE]
    /\ flocals = NoFup
    /\ fresult = None

\* base_name, ext = os.path.splitext(filename); name = base_name; index = ...
FupCall(filename, always_number) ==
    /\ fpc = "idle"
    /\ fargs' = [filename |-> filename, always_number |-> always_number]
    /\ flocals' = [NoFup EXCEPT !.base_name = SplitExt(filename)[1],
                                !.ext = SplitExt(filename)[2],
                                !.name = SplitExt(filename)[1],
                                !.index = FirstIndex(always_number)]
    /\ fpc' = "name"
    /\ UNCHANGED <<existing, fresult>>
    /\ UNCHANGED <<wdVars, loadVars, execVars>>

\* if always_number: name = base_name + "_" + str(index); path = dir_path / (name + ext)
FupName ==
    /\ fpc = "name"
    /\ LET name == IF fargs.always_number
                   THEN Numbered(flocals.base_name, flocals.index)
                   ELSE flocals.name
       IN flocals' = [flocals EXCEPT !.name = name, !.path = name \o flocals.ext]
    /\ fpc' = "test"
    /\ UNCHANGED <<existing, fargs, fresult>>
    /\ UNCHANGED <<wdVars, loadVars, execVars>>

\* if not path.exists(): break; if not always_number: name = ...; index += 1
FupTest ==
    /\ fpc = "test"
    /\ IF ~PathExists(flocals.path, existing)
       THEN /\ fpc' = "return"
            /\ UNCHANGED flocals
       ELSE /\ fpc' = "name"
            /\ flocals' = [flocals EXCEPT
                    !.name = IF ~fargs.always_number
                             THEN Numbered(flocals.base_name, flocals.index) ELSE @,
                    !.index = @ + 1]
    /\ UNCHANGED <<existing, fargs, fresult>>
    /\ UNCHANGED <<wdVars, loadVars, execVars>>

\* return path
FupReturn ==
    /\ fpc = "return"
    /\ fresult' = Some(flocals.path)
    /\ fpc' = "done"
    /\ UNCHANGED <<existing, fargs, flocals>>
    /\ UNCHANGED <<wdVars, loadVars, execVars>>

-----------------------------------------------------------------------------
(* Specifications *)

ProcessInit ==
    /\ cwd \in Dirs
    /\ scopes = <<>>
    /\ entered = <<>>
    /\ raising = None
    /\ lastExit = None
    /\ wdTarget = None

WDInit ==
    /\ ProcessInit
    /\ LoadIdle
    /\ attached = NothingAttached
    /\ ExecIdle
    /\ FupIdle
    /\ beh = NoBehaviour
    /\ pyRandom = 0
    /\ npRandom = 0

WDNext ==
    \/ \E p \in Paths : WDEnter(p)
    \/ \E p \in Paths : WDInnerChdir(p)
    \/ \E e \in BaseExceptions : WDInnerRaise(e)
    \/ WDExit
    \/ WDCatch

SpecWD == WDInit /\ [][WDNext]_vars

LoadNext ==
    \/ \E p \in Paths : LoadCall(p)
    \/ LoadEnter
    \/ \E ran \in ScriptOutcomes : LoadRun(ran)
    \/ LoadLeave
    \/ LoadHandler
    \/ LoadScan

LoadInit ==
    /\ ProcessInit
    /\ LoadIdle
    /\ attached = NothingAttached
    /\ ExecIdle
    /\ FupIdle
    /\ beh = NoBehaviour
    /\ pyRandom = 0
    /\ npRandom = 0

SpecLoad == LoadInit /\ [][LoadNext]_vars


\* one execution of a class that was loaded from /a or defined by the caller
ExecInit ==
    /\ ProcessInit
    /\ LoadIdle
    /\ attached \in {NothingAttached, [NothingAttached EXCEPT ![1] = Some(AbsPath(<<"a">>))]}
    /\ ExecIdle
    /\ FupIdle
    /\ beh \in Behaviours
    /\ pyRandom \in Rng
    /\ npRandom \in Rng

ExecNext ==
    \/ \E c \in {None, Some(1)}, seed \in Seeds, finalize \in BOOLEAN :
            ExecCall(c, seed, finalize)
    \/ ExecSteps

SpecExec == ExecInit /\ [][ExecNext]_vars

\* two executions of one sketch class that draws from the four sources, with the
\* same arguments, the sources in any state before each
DetBehaviours ==
    {b \in Behaviours : b.random /\ b.ctor = "ok" /\ b.raisesAt = "never"
                        /\ b.shapes = <<ExampleShape>> /\ b.page # None}

DetInit ==
    /\ ProcessInit
    /\ cwd = <<>>
    /\ LoadIdle
    /\ attached = NothingAttached
    /\ ExecIdle
    /\ FupIdle
    /\ beh \in DetBehaviours
    /\ pyRandom \in Rng
    /\ npRandom \in Rng

\* the first call with any arguments, a later one with the arguments of the first
DetCall(seed, finalize) ==
    /\ prev # None => seed = prev[1].seed /\ finalize = prev[1].finalize
    /\ ExecCall(Some(1), seed, finalize)

DetNext ==
    \/ \E seed \in Seeds, finalize \in BOOLEAN : DetCall(seed, finalize)
    \/ ExecSteps
    \/ \E py \in Rng, np \in Rng : ExecAgain(py, np)

SpecDet == DetInit /\ [][DetNext]_vars

\* a script with one sketch class is loaded from a path, the caller moves to
\* another directory, the class (or a class of the caller's own) is executed
HomeScripts == {<<[op |-> "bind", name |-> "x", kind |-> "sketch"]>>}

HomeOutcomes == Outcomes(HomeScripts)

HomeBehaviours ==
    {b \in Behaviours : ~b.random /\ b.ctor = "ok" /\ b.raisesAt = "never" /\ b.centered
                        /\ b.shapes = <<ExampleShape>> /\ b.page # None}

LoadedClass == IF lresult.kind = "class" THEN Some(lresult.cls) ELSE None

HomeInit ==
    /\ ProcessInit
    /\ LoadIdle
    /\ attached = NothingAttached
    /\ ExecIdle
    /\ FupIdle
    /\ beh \in HomeBehaviours
    /\ pyRandom = 0
    /\ npRandom = 0

\* execute_sketch on what load_sketch_class returned, or on another class
HomeCall(c, seed, finalize) ==
    /\ lpc = "done"
    /\ ExecCall(c, seed, finalize)

HomeNext ==
    \/ \E p \in Paths : LoadCall(p)
    \/ LoadEnter
    \/ \E ran \in HomeOutcomes : LoadRun(ran)
    \/ LoadLeave
    \/ LoadHandler
    \/ LoadScan
    \/ \E d \in Dirs : CallerChdir(d)
    \/ \E c \in {LoadedClass, Some(MaxStmts)}, seed \in Seeds, finalize \in BOOLEAN :
            HomeCall(c, seed, finalize)
    \/ ExecSteps

SpecHome == HomeInit /\ [][HomeNext]_vars

\* one call of find_unique_path on a directory that holds any of the names
FupInit ==
    /\ ProcessInit
    /\ cwd = <<>>
    /\ LoadIdle
    /\ attached = NothingAttached
    /\ ExecIdle
    /\ beh = NoBehaviour
    /\ pyRandom = 0
    /\ npRandom = 0
    /\ fpc = "idle"
    /\ fargs = [filename |-> <<>>, always_number |-> FALSE]
    /\ flocals = NoFup
    /\ fresult = None
    /\ \E f \in Filenames : existing \in SUBSET Candidates(f)

\* a call for a filename that the directory's files are numbered after
FupStart(f, a) ==
    /\ existing \subseteq Candidates(f)
    /\ FupCall(f, a)

\* the statements of a call that is under way
FupStep == FupName \/ FupTest \/ FupReturn

FupNext ==
    \/ \E f \in Filenames, a \in BOOLEAN : FupStart(f, a)
    \/ FupName
    \/ FupTest
    \/ FupReturn

\* a call that is under way runs on: nothing suspends it
SpecFup == FupInit /\ [][FupNext]_vars /\ WF_vars(FupStep)

-----------------------------------------------------------------------------
\* C2: whenever a working_directory scope is left, normally or by an exception,
\* after inner work that may have changed the directory or nested further scopes,
\* the working directory is the one from right before the scope was entered; a
\* scope whose entry fails leaves the directory as it was.
C2_Restored ==
    /\ lastExit # None => lastExit[1].actual = lastExit[1].expected
    /\ wdTarget # None => wdTarget[1].after = wdTarget[1].before

\* a nested scope left by an exception after the inner work moved elsewhere
C2_Witness ==
    /\ lastExit # None
    /\ lastExit[1].exc # None
    /\ lastExit[1].depth = 2
    /\ lastExit[1].inner # lastExit[1].expected
    /\ lastExit[1].inner # scopes[1]

-----------------------------------------------------------------------------
\* C3 as stated: whatever is raised while load_sketch_class runs the script (a
\* syntax error, an exception, any other abnormal end of the top-level code), the
\* call ends by returning None after a diagnostic, and nothing escapes it.
C3_NothingEscapes ==
    (lpc = "done" /\ failure # None) =>
        /\ lresult.kind = "none"
        /\ diag = 1
        /\ raising = None

\* C3 amended: a failure that is an Exception (a syntax error, a runtime error, a
\* file that is not found) is caught, reported once and turned into None; a
\* SystemExit or KeyboardInterrupt of the script leaves load_sketch_class unreported.
C3_ExceptionsCaught ==
    (lpc = "done" /\ failure # None) =>
        IF failure[1] \in {"Exception", "SyntaxError", "FileNotFoundError"}
        THEN lresult.kind = "none" /\ diag = 1 /\ raising = None
        ELSE lresult.kind = "raised" /\ diag = 0 /\ raising = failure

\* a script whose top-level code raised an exception, caught and reported
C3_Witness ==
    /\ lpc = "done"
    /\ failure = Some("Exception")
    /\ lresult.kind = "none"
    /\ diag = 1

\* C4: when the script ran, the class returned is the first value of its namespace,
\* in the namespace's order, that is a subclass of vsketch.Vsketch (values that are
\* no classes and unrelated classes are passed over) and only that class gets the
\* home directory attached; with no such value the call returns None, raises
\* nothing and attaches nothing.
C4_FirstSketchClass ==
    (lpc = "done" /\ ns # None) =>
        LET g == ns[1]
            sketches == {i \in 1..Len(g) : g[i].kind = "sketch"}
        IN  /\ raising = None
            /\ diag = 0
            /\ IF sketches = {}
               THEN lresult.kind = "none" /\ attached = NothingAttached
               ELSE /\ lresult.kind = "class"
                    /\ \E i \in sketches :
                          /\ \A j \in sketches : i <= j
                          /\ lresult.cls = g[i].id
                          /\ attached = [NothingAttached EXCEPT ![g[i].id] = Some(lcwdPath)]

\* an unrelated class, then two sketch classes: the first of the two is returned
C4_Witness ==
    /\ lpc = "done"
    /\ ns # None
    /\ Len(ns[1]) = 3
    /\ ns[1][1].kind = "class"
    /\ ns[1][2].kind = "sketch"
    /\ ns[1][3].kind = "sketch"
    /\ lresult = [kind |-> "class", cls |-> ns[1][2].id]

-----------------------------------------------------------------------------
Rank(ev) ==
    CASE ev = "init" -> 1
      [] ev = "randomSeed" -> 2
      [] ev = "noiseSeed" -> 3
      [] ev = "random.seed" -> 4
      [] ev = "np.random.seed" -> 5
      [] ev = "draw" -> 6
      [] ev = "finalize" -> 7
      [] ev = "leave" -> 8
      [] ev = "translate" -> 9

Happened(ev) == \E i \in 1..Len(log) : log[i].ev = ev

\* C5: the steps of one execution happen in the order instantiate, the four
\* seedings (instance randomSeed, instance noiseSeed, random, numpy.random; only
\* with a seed), draw, finalize (only when asked for), leaving the scoped
\* directory, the centering translation; none twice, none out of order, draw
\* never before a seeding that is due, and an execution that returns an instance
\* has drawn once and finalized exactly when asked to.
C5_StepOrder ==
    /\ \A i, j \in 1..Len(log) : i < j => Rank(log[i].ev) < Rank(log[j].ev)
    /\ \A i \in 1..Len(log) :
          /\ Rank(log[i].ev) \in 2..5 => eargs.seed # None
          /\ (Rank(log[i].ev) \in 3..5 /\ i > 1) => Rank(log[i - 1].ev) = Rank(log[i].ev) - 1
          /\ Rank(log[i].ev) > 1 => Happened("init")
    /\ (Happened("draw") /\ eargs.seed # None) =>
          \A ev \in {"randomSeed", "noiseSeed", "random.seed", "np.random.seed"} : Happened(ev)
    /\ Happened("finalize") => eargs.finalize /\ Happened("draw")
    /\ Happened("translate") => Happened("leave") /\ Happened("draw")
    /\ (epc = "done" /\ eresult.kind = "vsk") =>
          /\ Happened("draw")
          /\ Happened("leave")
          /\ Happened("finalize") <=> eargs.finalize

\* a seeded, finalized and centered execution: all nine steps
C5_Witness ==
    /\ epc = "done"
    /\ eresult.kind = "vsk"
    /\ eargs.seed # None
    /\ Len(log) = 9

\* C6: an execution that returns an instance has translated its document not at
\* all when centered is false, the page size is undefined or the drawn document has
\* no bounds; and otherwise exactly once, by one offset for all of its lines, after
\* which the middle of its bounds is the middle of the page on both axes.
C6_Centering ==
    (epc = "done" /\ eresult.kind = "vsk") =>
        LET inst == vsk[1]
            drawn == ehist.drawn
        IN  IF ~inst.centered \/ inst.page_size = None \/ drawn = <<>>
            THEN ehist.translated = 0 /\ inst.shapes = drawn
            ELSE LET b == Bounds(inst.shapes)[1]
                     page == inst.page_size[1]
                 IN  /\ ehist.translated = 1
                     /\ b[1] + b[3] = page[1]
                     /\ b[2] + b[4] = page[2]
                     /\ Len(inst.shapes) = Len(drawn)
                     /\ \A i \in 1..Len(drawn) : \A k \in 1..4 :
                           inst.shapes[i][k] - drawn[i][k]
                               = inst.shapes[1][2 - (k % 2)] - drawn[1][2 - (k % 2)]

\* a document that starts at negative coordinates and is larger than its page
C6_Witness ==
    /\ epc = "done"
    /\ eresult.kind = "vsk"
    /\ ehist.translated = 1
    /\ ehist.drawn = <<WideShape, DotShape>>
    /\ vsk[1].page_size = Some(<<U(3), U(5)>>)

\* C8: when draw or finalize raises, execute_sketch ends with that exception
\* reaching its caller: no instance is returned, no centering translation was
\* applied, and the working directory is the one from before the call.
C8_FailurePropagates ==
    (epc = "done" /\ ehist.raisedAt \in {"draw", "finalize"}) =>
        /\ eresult.kind = "raised"
        /\ raising = Some("Exception")
        /\ ehist.translated = 0
        /\ ~Happened("translate")
        /\ Happened("leave")
        /\ cwd = ehist.call
        /\ scopes = <<>>

\* finalize raised in the home directory, away from the caller's directory, on a
\* document that the centering would have moved
C8_Witness ==
    /\ epc = "done"
    /\ ehist.raisedAt = "finalize"
    /\ lastExit # None
    /\ lastExit[1].inner # ehist.call
    /\ vsk # None
    /\ ShouldCenter(vsk[1])

CenteredExample ==
    /\ epc = "done"
    /\ eresult.kind = "vsk"
    /\ vsk[1].centered
    /\ vsk[1].page_size = Some(<<U(100), U(100)>>)
    /\ ehist.drawn = <<ExampleShape>>

\* C9 as stated: centered, on a page of (100, 100), the one shape drawn with bounds
\* (10,10)-(30,50) ends at (35,25)-(55,65).
C9_ExampleAsStated ==
    CenteredExample => vsk[1].shapes = <<<<U(35), U(25), U(55), U(65)>>>>

\* C9 amended: centered, on a page of (100, 100), the one shape drawn with bounds
\* (10,10)-(30,50) ends at (40,30)-(60,70): the offset of the formula is (30, 20).
C9_Example ==
    CenteredExample => vsk[1].shapes = <<<<U(40), U(30), U(60), U(70)>>>>

\* the example ran: not finalized, so that the shape is the whole document
C9_Witness ==
    /\ CenteredExample
    /\ ~eargs.finalize
    /\ ehist.translated = 1

-----------------------------------------------------------------------------
\* C1: two executions of one sketch class with the same seed (0 included) and the
\* same finalize, the class drawing from the four seeded sources only, leave
\* documents with the same geometry, whatever state the four sources were in
\* before each.
C1_Deterministic ==
    (/\ epc = "done"
     /\ eresult.kind = "vsk"
     /\ prev # None
     /\ eargs.seed # None
     /\ eargs.seed = prev[1].seed
     /\ eargs.finalize = prev[1].finalize)
        => vsk[1].shapes = prev[1].shapes

\* seed 0, and each of the four sources in another state before the second
\* execution than before the first
C1_Witness ==
    /\ epc = "done"
    /\ eresult.kind = "vsk"
    /\ prev # None
    /\ eargs.seed = Some(0)
    /\ prev[1].seed = Some(0)
    /\ \A i \in 1..4 : ehist.prior[i] # prev[1].prior[i]

\* C7 as stated: the home directory attached by load_sketch_class(path) is path
\* when path is a directory and its parent otherwise; instantiation, seeding, draw
\* and finalize of a later execution of the class run in that directory, whatever
\* the working directory at the call of execute_sketch; a class with no home
\* attached runs them in the working directory of the call.
C7_HomeDirectory ==
    /\ (lpc = "done" /\ lresult.kind = "class") =>
          attached[lresult.cls] = Some(IF IsDir(lcall, lpath) THEN lpath ELSE Parent(lpath))
    /\ \A i \in 1..Len(log) : Rank(log[i].ev) \in 1..7 =>
          LET cls == eargs.cls[1] IN
          IF attached[cls] # None
          THEN log[i].cwd = Resolve(lcall, attached[cls][1])
          ELSE log[i].cwd = ehist.call

-----------------------------------------------------------------------------
FupFree(name) == ~PathExists(name, existing)

FupNumber(k) == Numbered(SplitExt(fargs.filename)[1], k) \o SplitExt(fargs.filename)[2]

FupResultRight ==
    LET r == fresult[1]
        first == IF fargs.always_number THEN 1 ELSE 2
    IN  /\ FupFree(r)
        /\ IF ~fargs.always_number /\ FupFree(fargs.filename)
           THEN r = fargs.filename
           ELSE /\ r # fargs.filename
                /\ \E k \in first..(Cardinality(existing) + 2) :
                      /\ r = FupNumber(k)
                      /\ \A j \in first..(k - 1) : ~FupFree(FupNumber(j))
        /\ (fargs.filename = SketchSvg /\ existing = {}) =>
              r = IF fargs.always_number
                  THEN <<"s", "k", "e", "t", "c", "h", "_", "1", ".", "s", "v", "g">>
                  ELSE SketchSvg
        /\ (fargs.filename = SketchSvg /\ existing = {SketchSvg} /\ ~fargs.always_number) =>
              r = <<"s", "k", "e", "t", "c", "h", "_", "2", ".", "s", "v", "g">>

====
